---- MODULE Spec2Model ----
(***************************************************************************)
(* A model of the bankid-rs client library: the personal number parser and *)
(* its canonical rendering (src/src/lib.rs), the request serializers       *)
(* (src/src/request.rs), the response decoders (src/src/response.rs) and   *)
(* the four client operations with their shared send step.                 *)
(*                                                                         *)
(* Text is modelled as a sequence of one-character strings, so that        *)
(* parsing and formatting are computed character by character.             *)
(***************************************************************************)
EXTENDS Integers, Sequences, FiniteSets, TLC

VARIABLES
    pno_input,    \* the text handed to PersonalNumber::parse / deserialize
    pno_result,   \* the Result of the last parse or deserialize, or NoResult
    pno_text,     \* the text produced by Display / Serialize, or NoText
    test,         \* Client.test
    root_ca,      \* the root certificate installed in Client.reqwest_client
    calls         \* one record per call slot of auth / sign / collect / cancel

pnoVars == <<pno_input, pno_result, pno_text>>
clientVars == <<test, root_ca, calls>>
vars == <<pno_input, pno_result, pno_text, test, root_ca, calls>>

----------------------------------------------------------------------------
(* Bounds of the model.                                                     *)

\* longest input text given to the parser
MaxLen == 13
\* the digits of an input repeat with this period
Period == 3
\* calls that may be in progress at once on the shared client
MaxCalls == 2

----------------------------------------------------------------------------
(* Characters and decimal text.                                             *)

DigitChars == {"0", "1", "2", "3", "4", "5", "6", "7", "8", "9"}

DigitSeq == <<"0", "1", "2", "3", "4", "5", "6", "7", "8", "9">>

DigitVal(c) == (CHOOSE i \in 1..10 : DigitSeq[i] = c) - 1

\* [0-9]
IsDigit(c) == c \in DigitChars

AllDigits(s) == \A i \in 1..Len(s) : IsDigit(s[i])

\* the decimal value of a run of digits
RECURSIVE DecVal(_)
DecVal(s) ==
    IF s = <<>> THEN 0
    ELSE 10 * DecVal(SubSeq(s, 1, Len(s) - 1)) + DigitVal(s[Len(s)])

\* the decimal digits of a natural number, without padding
RECURSIVE DecStr(_)
DecStr(n) ==
    IF n < 10 THEN <<DigitSeq[n + 1]>>
    ELSE Append(DecStr(n \div 10), DigitSeq[(n % 10) + 1])

\* a mis-formatting that drops the zero padding: "{}" instead of "{:0w}"
PadNone(s, w) == s

\* "{:0w}": zero-pad on the left to at least w characters, never truncate
RECURSIVE Pad(_, _)
Pad(s, w) == IF Len(s) >= w THEN s ELSE Pad(<<"0">> \o s, w)

----------------------------------------------------------------------------
(* PersonalNumber::parse.  The expression is                                *)
(*   ^([19|20][0-9]{2}|[0-9]{4})([0-9]{2})([0-9]{2})[- ]?([0-9]{4})$        *)
(* where [19|20] is a bracket expression: one character out of 1 9 | 2 0.   *)

\* the bracket expression [19|20]
Class19_20 == {"1", "9", "|", "2", "0"}

\* the bracket expression [- ]
ClassSep == {"-", " "}

\* first alternative of group 1: [19|20][0-9]{2}
MatchYearA(s) == Len(s) = 3 /\ s[1] \in Class19_20 /\ IsDigit(s[2]) /\ IsDigit(s[3])

\* second alternative of group 1: [0-9]{4}
MatchYearB(s) == Len(s) = 4 /\ AllDigits(s)

\* a slip in the group bounds: the month group one character too long
SplitWide(s, ylen, sep) ==
    [g1 |-> SubSeq(s, 1, ylen),
     g2 |-> SubSeq(s, ylen + 1, ylen + 3),
     g3 |-> SubSeq(s, ylen + 3, ylen + 4),
     sp |-> SubSeq(s, ylen + 5, ylen + 4 + sep),
     g4 |-> SubSeq(s, ylen + 5 + sep, ylen + 8 + sep)]

\* The text split with a year group of ylen characters and sep (0 or 1)
\* separator characters; every group has a fixed length, so the anchors
\* ^ and $ fix the whole split.
Split(s, ylen, sep) ==
    [g1 |-> SubSeq(s, 1, ylen),
     g2 |-> SubSeq(s, ylen + 1, ylen + 2),
     g3 |-> SubSeq(s, ylen + 3, ylen + 4),
     sp |-> SubSeq(s, ylen + 5, ylen + 4 + sep),
     g4 |-> SubSeq(s, ylen + 5 + sep, ylen + 8 + sep)]

MatchesWith(s, ylen, sep) ==
    /\ Len(s) = ylen + 8 + sep
    /\ LET p == Split(s, ylen, sep) IN
        /\ IF ylen = 3 THEN MatchYearA(p.g1) ELSE MatchYearB(p.g1)
        /\ AllDigits(p.g2)
        /\ AllDigits(p.g3)
        /\ \A i \in 1..Len(p.sp) : p.sp[i] \in ClassSep
        /\ AllDigits(p.g4)

\* The ways to match in the order the engine prefers them: the first
\* alternative before the second, and [- ]? taking the separator first.
Preference == <<<<3, 1>>, <<3, 0>>, <<4, 1>>, <<4, 0>>>>

\* re.is_match(value)
IsMatch(s) ==
    \E k \in 1..Len(Preference) : MatchesWith(s, Preference[k][1], Preference[k][2])

\* re.captures(value): the groups of the preferred match
Captures(s) ==
    LET k == CHOOSE j \in 1..Len(Preference) :
                 /\ MatchesWith(s, Preference[j][1], Preference[j][2])
                 /\ \A i \in 1..(j - 1) :
                        ~MatchesWith(s, Preference[i][1], Preference[i][2])
    IN  Split(s, Preference[k][1], Preference[k][2])

InvalidPersonalNumber(reason) ==
    [ok |-> FALSE, kind |-> "InvalidPersonalNumber", reason |-> reason]

\* parse_part::<uN>: str::parse of an unsigned integer of the given width
ParsePartOk(m, bits) == Len(m) > 0 /\ AllDigits(m) /\ DecVal(m) < 2 ^ bits

\* width of PersonalNumber.year and .last_four_digits
U16 == 16
\* width of PersonalNumber.month and .day
U8 == 8

parse(value) ==
    IF ~IsMatch(value)
    THEN InvalidPersonalNumber("Personal number does not match expression")
    ELSE LET c == Captures(value) IN
         IF /\ ParsePartOk(c.g1, U16)
            /\ ParsePartOk(c.g2, U8)
            /\ ParsePartOk(c.g3, U8)
            /\ ParsePartOk(c.g4, U16)
         THEN [ok |-> TRUE, kind |-> "Ok",
               pno |-> [year |-> DecVal(c.g1),
                        month |-> DecVal(c.g2),
                        day |-> DecVal(c.g3),
                        last_four_digits |-> DecVal(c.g4)]]
         ELSE InvalidPersonalNumber("Failed to parse match to numeric value")

\* Display for PersonalNumber: "{:04}{:02}{:02}{:04}"
to_string(p) ==
    Pad(DecStr(p.year), 4) \o Pad(DecStr(p.month), 2)
        \o Pad(DecStr(p.day), 2) \o Pad(DecStr(p.last_four_digits), 4)

\* Serialize for PersonalNumber: the JSON string of to_string
serialize_pno(p) == [t |-> "string", chars |-> to_string(p)]

\* Deserialize for PersonalNumber: a JSON string handed to parse; a parse
\* error becomes the deserializer's custom error
deserialize_pno(j) ==
    LET r == parse(j.chars) IN
    IF r.ok THEN r
    ELSE [ok |-> FALSE, kind |-> "serde", reason |-> r.reason]

----------------------------------------------------------------------------
(* JSON values and the request serializers (src/src/request.rs).            *)

None == [some |-> FALSE]
Some(x) == [some |-> TRUE, val |-> x]

JNull == [t |-> "null"]
JStr(x) == [t |-> "string", s |-> x]
JBool(x) == [t |-> "bool", b |-> x]
JObj(o) == [t |-> "object", o |-> o]

\* the JSON object holding the given fields
Object(fields) ==
    [k \in {f.k : f \in fields} |-> (CHOOSE f \in fields : f.k = k).v]

\* Option<T> with its value serialized by T's serializer
OptStr(opt) == IF opt.some THEN Some(JStr(opt.val)) ELSE None
OptBool(opt) == IF opt.some THEN Some(JBool(opt.val)) ELSE None
OptPno(opt) == IF opt.some THEN Some(serialize_pno(opt.val)) ELSE None

\* one field of a struct: Option<T> serializes None as null, Some(x) as x
KeepField(k, opt) == {[k |-> k, v |-> IF opt.some THEN opt.val ELSE JNull]}

\* #[serde(skip_serializing_if = "Option::is_none")]
SkipIfNone(k, opt) == IF opt.some THEN KeepField(k, opt) ELSE {}

\* Serialize for Requirement
SerRequirement(r) ==
    JObj(Object(
        SkipIfNone("certificatePolicies", OptStr(r.certificate_policies))
        \cup SkipIfNone("allowFingerprint", OptBool(r.allow_fingerprint))
        \cup SkipIfNone("autoStartTokenRequired", OptBool(r.auto_start_token_required))
        \cup SkipIfNone("issuerCn", OptBool(r.issuer_cn))
        \cup SkipIfNone("cardReader", OptStr(r.card_reader))))

OptRequirement(opt) == IF opt.some THEN Some(SerRequirement(opt.val)) ELSE None

\* Serialize for AuthRequest
SerAuthRequest(r) ==
    Object(
        {[k |-> "endUserIp", v |-> JStr(r.end_user_ip)]}
        \cup SkipIfNone("personalNumber", OptPno(r.personal_number))
        \cup SkipIfNone("requirement", OptRequirement(r.requirement)))

\* Serialize for SignRequest: personal_number carries no skip attribute
SerSignRequest(r) ==
    Object(
        {[k |-> "endUserIp", v |-> JStr(r.end_user_ip)]}
        \cup KeepField("personalNumber", OptPno(r.personal_number))
        \cup SkipIfNone("requirement", OptRequirement(r.requirement))
        \cup SkipIfNone("userVisibleData", OptStr(r.user_visible_data))
        \cup SkipIfNone("userNonVisibleData", OptStr(r.user_non_visible_data)))

\* Serialize for CollectRequest and CancelRequest
SerOrderRefRequest(r) == Object({[k |-> "orderRef", v |-> JStr(r.order_ref)]})

\* .json(&request): the body of the request an operation builds
SerRequest(op, r) ==
    CASE op = "auth" -> SerAuthRequest(r)
      [] op = "sign" -> SerSignRequest(r)
      [] OTHER -> SerOrderRefRequest(r)

----------------------------------------------------------------------------
(* The response decoders (src/src/response.rs).  A body is either text     *)
(* that is no JSON object, or a JSON object: a function from its keys.      *)

DecodeFail == [ok |-> FALSE]
Decoded(v) == [ok |-> TRUE, val |-> v]

Has(o, k) == k \in DOMAIN o

\* the well-formed UUID texts of the model
Uuids == {"o1", "o2", "t1"}

\* Deserialize for Uuid
DecodeUuid(o, k) ==
    IF Has(o, k) /\ o[k] \in Uuids THEN Decoded(o[k]) ELSE DecodeFail

\* CollectHintCode under rename_all = "camelCase", Canceled renamed
HintCodeWire ==
    [OutstandingTransaction |-> "outstandingTransaction",
     NoClient |-> "noClient",
     Started |-> "started",
     UserSign |-> "userSign",
     ExpiredTransaction |-> "expiredTransaction",
     CertificateErr |-> "certificateErr",
     UserCancel |-> "userCancel",
     Canceled |-> "cancelled",
     StartFailed |-> "startFailed"]

\* ErrorCode under rename_all = "camelCase"
ErrorCodeWire ==
    [AlreadyInProgress |-> "alreadyInProgress",
     InvalidParameters |-> "invalidParameters",
     Canceled |-> "canceled",
     Unauthorized |-> "unauthorized",
     NotFound |-> "notFound",
     RequestTimeout |-> "requestTimeout",
     UnsupportedMediaType |-> "unsupportedMediaType",
     InternalError |-> "internalError",
     Maintenance |-> "maintenance"]

\* a unit-variant enum read from its wire name
DecodeEnum(table, o, k) ==
    IF Has(o, k) /\ \E v \in DOMAIN table : table[v] = o[k]
    THEN Decoded(CHOOSE v \in DOMAIN table : table[v] = o[k])
    ELSE DecodeFail

\* Deserialize for OrderResponse
DecodeOrderResponse(o) ==
    IF /\ DecodeUuid(o, "orderRef").ok
       /\ DecodeUuid(o, "autoStartToken").ok
       /\ DecodeUuid(o, "qrStartToken").ok
       /\ DecodeUuid(o, "qrStartSecret").ok
    THEN Decoded([order_ref |-> o.orderRef,
                  auto_start_token |-> o.autoStartToken,
                  qr_start_token |-> o.qrStartToken,
                  qr_start_secret |-> o.qrStartSecret])
    ELSE DecodeFail

\* Deserialize for ClientError
DecodeClientError(o) ==
    IF DecodeEnum(ErrorCodeWire, o, "errorCode").ok /\ Has(o, "details")
    THEN Decoded([error_code |-> DecodeEnum(ErrorCodeWire, o, "errorCode").val,
                  details |-> o.details])
    ELSE DecodeFail

\* Deserialize for User
DecodeUser(o) ==
    IF /\ Has(o, "personalNumber")
       /\ deserialize_pno([t |-> "string", chars |-> o.personalNumber]).ok
       /\ Has(o, "name") /\ Has(o, "givenName") /\ Has(o, "surname")
    THEN Decoded([personal_number |->
                      deserialize_pno([t |-> "string", chars |-> o.personalNumber]).pno,
                  name |-> o.name,
                  given_name |-> o.givenName,
                  surname |-> o.surname])
    ELSE DecodeFail

\* Deserialize for CompletionData, with its Device and Cert
DecodeCompletionData(o, k) ==
    IF /\ Has(o, k)
       /\ Has(o[k], "user") /\ DecodeUser(o[k].user).ok
       /\ Has(o[k], "device") /\ Has(o[k].device, "ipAddress")
       /\ Has(o[k], "cert")
       /\ Has(o[k].cert, "notBefore") /\ Has(o[k].cert, "notAfter")
       /\ Has(o[k], "signature")
       /\ Has(o[k], "ocspResponse")
    THEN Decoded([user |-> DecodeUser(o[k].user).val,
                  device |-> [ip_address |-> o[k].device.ipAddress],
                  cert |-> [not_before |-> o[k].cert.notBefore,
                            not_after |-> o[k].cert.notAfter],
                  signature |-> o[k].signature,
                  ocsp_response |-> o[k].ocspResponse])
    ELSE DecodeFail

\* a decoder that asks Pending for no order reference
PendingLenient(o) ==
    IF DecodeEnum(HintCodeWire, o, "hintCode").ok
    THEN Decoded([status |-> "Pending",
                  hint_code |-> DecodeEnum(HintCodeWire, o, "hintCode").val,
                  order_ref |-> IF Has(o, "orderRef") THEN o.orderRef ELSE "none"])
    ELSE DecodeFail

\* CollectResponse::Pending { hint_code, order_ref }
Pending(o) ==
    IF DecodeEnum(HintCodeWire, o, "hintCode").ok /\ DecodeUuid(o, "orderRef").ok
    THEN Decoded([status |-> "Pending",
                  hint_code |-> DecodeEnum(HintCodeWire, o, "hintCode").val,
                  order_ref |-> o.orderRef])
    ELSE DecodeFail

\* CollectResponse::Failed { hint_code }
Failed(o) ==
    IF DecodeEnum(HintCodeWire, o, "hintCode").ok
    THEN Decoded([status |-> "Failed",
                  hint_code |-> DecodeEnum(HintCodeWire, o, "hintCode").val])
    ELSE DecodeFail

\* CollectResponse::Complete { completion_data, order_ref }
Complete(o) ==
    IF DecodeCompletionData(o, "completionData").ok /\ DecodeUuid(o, "orderRef").ok
    THEN Decoded([status |-> "Complete",
                  completion_data |-> DecodeCompletionData(o, "completionData").val,
                  order_ref |-> o.orderRef])
    ELSE DecodeFail

\* Deserialize for CollectResponse: internally tagged by "status"
DecodeCollectResponse(o) ==
    IF ~Has(o, "status") THEN DecodeFail
    ELSE CASE o.status = "pending" -> Pending(o)
           [] o.status = "failed" -> Failed(o)
           [] o.status = "complete" -> Complete(o)
           [] OTHER -> DecodeFail

\* Deserialize for CancelResponse: a struct without fields
DecodeCancelResponse(o) == Decoded([unit |-> TRUE])

\* response.json::<T>() on a body that was received
Json(T, body) ==
    IF ~body.json THEN DecodeFail
    ELSE CASE T = "OrderResponse" -> DecodeOrderResponse(body.obj)
           [] T = "CollectResponse" -> DecodeCollectResponse(body.obj)
           [] T = "CancelResponse" -> DecodeCancelResponse(body.obj)
           [] T = "ClientError" -> DecodeClientError(body.obj)

----------------------------------------------------------------------------
(* The client (src/src/lib.rs): Client::new, base_uri, the four operations  *)
(* and send.                                                                *)

Calls == 1..MaxCalls

\* Client::new: the root certificate chosen by the test flag
RootCa(t) == IF t THEN "B64_ROOT_CA_TEST" ELSE "B64_ROOT_CA_PROD"

\* a base_uri that ignores the test flag: always the production address
base_uriProd(t, path) == <<"https://appapi2.bankid.com/rp/v5.1/", path>>

\* Client::base_uri: the path joined onto the environment's base address
base_uri(t, path) ==
    <<IF t THEN "https://appapi2.test.bankid.com/rp/v5.1/"
           ELSE "https://appapi2.bankid.com/rp/v5.1/", path>>

\* the type an operation asks send to decode
ResponseType(op) ==
    CASE op \in {"auth", "sign"} -> "OrderResponse"
      [] op = "collect" -> "CollectResponse"
      [] op = "cancel" -> "CancelResponse"

ReqwestError(cause) == [ok |-> FALSE, kind |-> "ReqwestError", cause |-> cause]
ClientError(e) ==
    [ok |-> FALSE, kind |-> "ClientError",
     error_code |-> e.error_code, details |-> e.details]
Ok(v) == [ok |-> TRUE, kind |-> "Ok", val |-> v]

\* StatusCode::is_success
is_success(status) == status >= 200 /\ status <= 299

\* send with the status test dropped: every body read as the success type
sendAnyStatus(T, resp) ==
    IF resp.io = "refused" THEN ReqwestError("transport")
    ELSE IF resp.io = "cut" THEN ReqwestError("body")
         ELSE IF Json(T, resp.body).ok
              THEN Ok(Json(T, resp.body).val)
              ELSE ReqwestError("decode")

\* send with the two branches exchanged
sendSwapped(T, resp) ==
    IF resp.io = "refused" THEN ReqwestError("transport")
    ELSE IF ~is_success(resp.status)
         THEN IF resp.io = "cut" THEN ReqwestError("body")
              ELSE IF Json(T, resp.body).ok
                   THEN Ok(Json(T, resp.body).val)
                   ELSE ReqwestError("decode")
         ELSE IF resp.io = "cut" THEN ReqwestError("body")
              ELSE IF Json("ClientError", resp.body).ok
                   THEN ClientError(Json("ClientError", resp.body).val)
                   ELSE ReqwestError("decode")

\* Client::send, given what came back for the one request it executes:
\* no response at all, a status whose body could not be read, or a status
\* with a body.  Every `?` turns a reqwest error into Error::ReqwestError.
send(T, resp) ==
    IF resp.io = "refused" THEN ReqwestError("transport")
    ELSE IF is_success(resp.status)
         THEN IF resp.io = "cut" THEN ReqwestError("body")
              ELSE IF Json(T, resp.body).ok
                   THEN Ok(Json(T, resp.body).val)
                   ELSE ReqwestError("decode")
         ELSE IF resp.io = "cut" THEN ReqwestError("body")
              ELSE IF Json("ClientError", resp.body).ok
                   THEN ClientError(Json("ClientError", resp.body).val)
                   ELSE ReqwestError("decode")

\* cancel maps the decoded CancelResponse to ()
Outcome(op, r) == IF op = "cancel" /\ r.ok THEN Ok([unit |-> TRUE]) ELSE r

NoRequest == [none |-> TRUE]
NoResponse == [io |-> "none"]
NoOutcome == [ok |-> FALSE, kind |-> "none"]

Idle ==
    [pc |-> "idle", op |-> "none", req |-> NoRequest, url |-> <<>>,
     body |-> NoRequest, sent |-> 0, resp |-> NoResponse, result |-> NoOutcome]

\* a result taken from one response slot shared by all calls: the response
\* of the first call that holds one, whoever asks
ResultOfShared(cs, c) ==
    LET d == CHOOSE d \in Calls :
                 /\ cs[d].resp.io # "none"
                 /\ \A e \in 1..(d - 1) : cs[e].resp.io = "none"
    IN  Outcome(cs[c].op, send(ResponseType(cs[c].op), cs[d].resp))

\* the result of call c: send applied to the response to its own request
ResultOf(cs, c) ==
    Outcome(cs[c].op, send(ResponseType(cs[c].op), cs[c].resp))

\* a call that executes its request again when the result is an error
FinishRetrying(call, result) ==
    IF result.ok
    THEN [call EXCEPT !.pc = "done", !.result = result]
    ELSE [call EXCEPT !.pc = "sent", !.sent = @ + 1, !.resp = NoResponse]

\* the call returns the result of send to its caller
Finish(call, result) == [call EXCEPT !.pc = "done", !.result = result]

\* auth / sign / collect / cancel up to the first await: the request is
\* built (.post(base_uri).json(&request).build()) and send executes it.
Start(c, reqs) ==
    /\ calls[c].pc = "idle"
    /\ \E q \in reqs :
        calls' = [calls EXCEPT ![c] =
            [pc |-> "sent", op |-> q.op, req |-> q.req,
             url |-> base_uri(test, q.op),
             body |-> SerRequest(q.op, q.req),
             sent |-> calls[c].sent + 1,
             resp |-> NoResponse, result |-> NoOutcome]]
    /\ UNCHANGED <<test, root_ca, pnoVars>>

\* reqwest_client.execute(request).await and the read of the body: what
\* the network and the server hand back for the request of call c
Answer(c, resps) ==
    /\ calls[c].pc = "sent"
    /\ \E r \in resps :
        calls' = [calls EXCEPT ![c].pc = "answered", ![c].resp = r]
    /\ UNCHANGED <<test, root_ca, pnoVars>>

\* the rest of send: the status test, the decode, the return
Return(c) ==
    /\ calls[c].pc = "answered"
    /\ calls' = [calls EXCEPT ![c] = Finish(calls[c], ResultOf(calls, c))]
    /\ UNCHANGED <<test, root_ca, pnoVars>>

\* the caller drops the result; the slot is free for the next call
Drop(c) ==
    /\ calls[c].pc = "done"
    /\ calls' = [calls EXCEPT ![c] = Idle]
    /\ UNCHANGED <<test, root_ca, pnoVars>>

\* the state after Client::new(identity, t)
ClientNew(t) ==
    /\ test = t
    /\ root_ca = RootCa(t)
    /\ calls = [c \in Calls |-> Idle]

\* a client on which nothing is called
ClientQuiet == ClientNew(TRUE)

----------------------------------------------------------------------------
(* The input texts of the parser.                                           *)

\* digits an input is made of: 0 and 1 are in [19|20], 7 is not
InputDigits == {"0", "1", "7"}

\* characters that are not digits: the two separators, the bar, a letter
InputOthers == {"-", " ", "|", "a"}

\* the text of n digits repeating pat
Fill(n, pat) == [i \in 1..n |-> pat[((i - 1) % Period) + 1]]

DigitTexts ==
    {Fill(n, pat) : n \in 0..MaxLen, pat \in [1..Period -> InputDigits]}

\* every digit text, and every digit text with one character replaced
PnoInputs ==
    DigitTexts \cup
    UNION {{[s EXCEPT ![i] = c] : i \in 1..Len(s), c \in InputOthers} : s \in DigitTexts}

NoResult == [ok |-> FALSE, kind |-> "none", reason |-> ""]
NoText == <<"?">>

PnoInit ==
    /\ pno_input \in PnoInputs
    /\ pno_result = NoResult
    /\ pno_text = NoText

\* PersonalNumber::parse(pno_input)
Parse ==
    /\ pno_result = NoResult
    /\ pno_result' = parse(pno_input)
    /\ pno_text' = NoText
    /\ UNCHANGED <<pno_input, clientVars>>

\* serde_json::from_str of the JSON string holding pno_input
Deserialize ==
    /\ pno_result = NoResult
    /\ pno_result' = deserialize_pno([t |-> "string", chars |-> pno_input])
    /\ pno_text' = NoText
    /\ UNCHANGED <<pno_input, clientVars>>

\* to_string / serde_json::to_string of the parsed value
Display ==
    /\ pno_result.ok
    /\ pno_text = NoText
    /\ pno_text' = serialize_pno(pno_result.pno).chars
    /\ UNCHANGED <<pno_input, pno_result, clientVars>>

InitPno == PnoInit /\ ClientQuiet

NextPno == Parse \/ Deserialize \/ Display

\* the parser applied to every input text
SpecPno == InitPno /\ [][NextPno]_vars

----------------------------------------------------------------------------
(* The requests callers make and the responses that may come back.          *)

\* "198710100101", and "19871010123", which the expression also accepts
SamplePnoTexts ==
    {<<"1", "9", "8", "7", "1", "0", "1", "0", "0", "1", "0", "1">>,
     <<"1", "9", "8", "7", "1", "0", "1", "0", "1", "2", "3">>}

\* personal numbers as callers obtain them: from parse
SamplePnos == {parse(t).pno : t \in {t \in SamplePnoTexts : parse(t).ok}}

OptPnos == {None} \cup {Some(p) : p \in SamplePnos}

NoRequirement ==
    [certificate_policies |-> None, allow_fingerprint |-> None,
     auto_start_token_required |-> None, issuer_cn |-> None,
     card_reader |-> None]

OptRequirements ==
    {None, Some(NoRequirement),
     Some([NoRequirement EXCEPT !.allow_fingerprint = Some(TRUE)])}

OptTexts == {None, Some("text")}

Orders == {"o1", "o2"}

AuthRequests ==
    {[op |-> "auth",
      req |-> [end_user_ip |-> "127.0.0.1", personal_number |-> p,
               requirement |-> r]] : p \in OptPnos, r \in OptRequirements}

SignRequests ==
    {[op |-> "sign",
      req |-> [end_user_ip |-> "127.0.0.1", personal_number |-> p,
               requirement |-> r, user_visible_data |-> v,
               user_non_visible_data |-> n]] :
        p \in OptPnos, r \in OptRequirements, v \in OptTexts, n \in OptTexts}

OrderRequests ==
    {[op |-> o, req |-> [order_ref |-> x]] : o \in {"collect", "cancel"}, x \in Orders}

Requests == AuthRequests \cup SignRequests \cup OrderRequests

Statuses == {200, 400, 404}

NotJson == [json |-> FALSE]
JsonBody(o) == [json |-> TRUE, obj |-> o]

\* hint codes on the wire: three of the fixed set and one outside it
WireHints == {"outstandingTransaction", "userSign", "cancelled", "bogus"}

\* error codes on the wire: two of the fixed set and one outside it
WireErrors == {"alreadyInProgress", "notFound", "teapot"}

\* orderRef values on the wire: two UUIDs and a text that is none
WireRefs == {"o1", "o2", "zz"}

GoodUser ==
    [personalNumber |-> <<"1", "9", "8", "7", "1", "0", "1", "0", "0", "1", "0", "1">>,
     name |-> "n", givenName |-> "g", surname |-> "s"]

GoodCompletion ==
    [user |-> GoodUser, device |-> [ipAddress |-> "127.0.0.1"],
     cert |-> [notBefore |-> "1", notAfter |-> "2"],
     signature |-> "sig", ocspResponse |-> "ocsp"]

\* a ten-digit personal number, which parse refuses
ShortPnoCompletion ==
    [GoodCompletion EXCEPT !.user.personalNumber =
        <<"8", "7", "1", "0", "1", "0", "0", "1", "0", "1">>]

OrderObjects ==
    {[orderRef |-> "o1", autoStartToken |-> "t1", qrStartToken |-> "t1",
      qrStartSecret |-> "t1"],
     [orderRef |-> "zz", autoStartToken |-> "t1", qrStartToken |-> "t1",
      qrStartSecret |-> "t1"],
     [orderRef |-> "o2", autoStartToken |-> "t1", qrStartToken |-> "t1"]}

CollectObjects ==
    {[status |-> st, hintCode |-> h] : st \in {"pending", "failed"}, h \in WireHints}
    \cup {[status |-> st, hintCode |-> h, orderRef |-> x] :
            st \in {"pending", "failed"}, h \in WireHints, x \in WireRefs}
    \cup {[status |-> "complete", completionData |-> d, orderRef |-> "o1"] :
            d \in {GoodCompletion, ShortPnoCompletion}}
    \cup {[status |-> "complete", completionData |-> GoodCompletion],
          [status |-> "complete", orderRef |-> "o1"],
          [status |-> "expired", hintCode |-> "userSign", orderRef |-> "o1"],
          [hintCode |-> "userSign", orderRef |-> "o1"]}

ErrorObjects ==
    {[errorCode |-> e, details |-> "x"] : e \in WireErrors}
    \cup {[errorCode |-> "notFound"]}

EmptyObject == [x \in {} |-> "none"]

Bodies ==
    {NotJson, JsonBody(EmptyObject)}
    \cup {JsonBody(o) : o \in OrderObjects \cup CollectObjects \cup ErrorObjects}

\* what may come back for one request
Responses ==
    {[io |-> "refused"]}
    \cup {[io |-> "cut", status |-> st] : st \in Statuses}
    \cup {[io |-> "ok", status |-> st, body |-> b] : st \in Statuses, b \in Bodies}

\* the requests and responses of the runs with several calls in progress
ConcRequests ==
    OrderRequests
    \cup {q \in AuthRequests : ~q.req.personal_number.some /\ ~q.req.requirement.some}

ConcResponses ==
    {[io |-> "refused"],
     [io |-> "ok", status |-> 200,
      body |-> JsonBody([status |-> "pending", hintCode |-> "userSign",
                         orderRef |-> "o1"])],
     [io |-> "ok", status |-> 200,
      body |-> JsonBody([status |-> "failed", hintCode |-> "cancelled"])],
     [io |-> "ok", status |-> 200,
      body |-> JsonBody([orderRef |-> "o2", autoStartToken |-> "t1",
                         qrStartToken |-> "t1", qrStartSecret |-> "t1"])],
     [io |-> "ok", status |-> 404,
      body |-> JsonBody([errorCode |-> "notFound", details |-> "x"])]}

----------------------------------------------------------------------------
(* The specifications of the client.                                        *)

PnoQuiet ==
    /\ pno_input = <<>>
    /\ pno_result = NoResult
    /\ pno_text = NoText

InitClient == PnoQuiet /\ \E t \in BOOLEAN : ClientNew(t)

\* one call at a time, every request and every response
NextClient ==
    \/ Start(1, Requests)
    \/ Answer(1, Responses)
    \/ Return(1)
    \/ Drop(1)

SpecClient == InitClient /\ [][NextClient]_vars

\* several calls in progress at once on the one client
NextConc ==
    \E c \in Calls :
        \/ Start(c, ConcRequests)
        \/ Answer(c, ConcResponses)
        \/ Return(c)
        \/ Drop(c)

SpecConc == InitClient /\ [][NextConc]_vars

----------------------------------------------------------------------------
(* Claims about the personal number.                                        *)

Parsed == pno_result.kind # "none"

Canonical(s) == Len(s) = 12 /\ AllDigits(s)

\* C1: for every text s of 12 digits, parse (and deserialize) succeeds with
\* year, month, day and serial the decimal values of characters 1-4, 5-6,
\* 7-8 and 9-12 of s, and rendering the parsed value gives s again.
C1_RoundTrip ==
    Canonical(pno_input) =>
        /\ Parsed =>
              /\ pno_result.ok
              /\ pno_result.pno.year = DecVal(SubSeq(pno_input, 1, 4))
              /\ pno_result.pno.month = DecVal(SubSeq(pno_input, 5, 6))
              /\ pno_result.pno.day = DecVal(SubSeq(pno_input, 7, 8))
              /\ pno_result.pno.last_four_digits = DecVal(SubSeq(pno_input, 9, 12))
        /\ pno_text # NoText => pno_text = pno_input

\* a 12-digit text with a zero-padded field has been parsed and rendered
C1_Witness ==
    /\ Canonical(pno_input)
    /\ pno_result.ok
    /\ pno_result.pno.month < 10
    /\ pno_result.pno.year < 1000
    /\ pno_text = pno_input

\* a character that is not a digit, anywhere but immediately before the
\* last four characters
StrayNonDigit(s) == \E i \in 1..Len(s) : ~IsDigit(s[i]) /\ i # Len(s) - 4

\* C2: every text whose length is not 10, 12 or 13, or that holds a
\* non-digit anywhere but the separator position, is refused by parse.
C2_RejectsMalformed ==
    (Parsed /\ (Len(pno_input) \notin {10, 12, 13} \/ StrayNonDigit(pno_input)))
        => ~pno_result.ok

\* C3 as claimed: every parsed value has month in 1..12, day in 1..31,
\* serial in 0..9999 and year in 1000..9999.
C3_CalendarRanges ==
    pno_result.ok =>
        /\ pno_result.pno.month \in 1..12
        /\ pno_result.pno.day \in 1..31
        /\ pno_result.pno.last_four_digits \in 0..9999
        /\ pno_result.pno.year \in 1000..9999

\* C3 as the parser has it: every parsed value has month and day in 0..99
\* and year and serial in 0..9999; digit counts are checked, not the calendar.
C3_DigitRanges ==
    pno_result.ok =>
        /\ pno_result.pno.month \in 0..99
        /\ pno_result.pno.day \in 0..99
        /\ pno_result.pno.last_four_digits \in 0..9999
        /\ pno_result.pno.year \in 0..9999

\* a value outside the calendar has been parsed from 12 digits
C3_Witness ==
    /\ Canonical(pno_input)
    /\ pno_result.ok
    /\ pno_result.pno.month > 12
    /\ pno_result.pno.year < 1000

----------------------------------------------------------------------------
(* Claims about the client.                                                 *)

Done(c) == calls[c].pc = "done"

\* call c is done and its request was answered with a status and a body
DoneWithBody(c) == Done(c) /\ calls[c].resp.io = "ok"

\* the body is an error payload: an errorCode of the fixed set and details
IsErrorPayload(b) ==
    /\ b.json
    /\ Has(b.obj, "errorCode")
    /\ b.obj.errorCode \in {ErrorCodeWire[v] : v \in DOMAIN ErrorCodeWire}
    /\ Has(b.obj, "details")

\* C4 as claimed: a non-2xx status with a body gives Error::ClientError and
\* never Error::ReqwestError, whatever the body holds.
C4_AlwaysClientError ==
    \A c \in Calls :
        (DoneWithBody(c) /\ ~is_success(calls[c].resp.status))
            => calls[c].result.kind = "ClientError"

\* C4 as the code has it: a non-2xx status with a body gives
\* Error::ClientError carrying the decoded errorCode and details when the
\* body is an error payload, and Error::ReqwestError when it is not.
C4_ErrorPayload ==
    \A c \in Calls :
        (DoneWithBody(c) /\ ~is_success(calls[c].resp.status)) =>
            IF IsErrorPayload(calls[c].resp.body)
            THEN /\ calls[c].result.kind = "ClientError"
                 /\ ErrorCodeWire[calls[c].result.error_code]
                        = calls[c].resp.body.obj.errorCode
                 /\ calls[c].result.details = calls[c].resp.body.obj.details
            ELSE calls[c].result.kind = "ReqwestError"

\* auth answered 400 {"errorCode":"alreadyInProgress","details":"x"}
C4_Witness ==
    \E c \in Calls :
        /\ DoneWithBody(c)
        /\ calls[c].op = "auth"
        /\ calls[c].resp.status = 400
        /\ calls[c].resp.body = JsonBody([errorCode |-> "alreadyInProgress", details |-> "x"])
        /\ calls[c].result.kind = "ClientError"
        /\ calls[c].result.error_code = "AlreadyInProgress"

\* C5: the body of an auth or sign request has no personalNumber key when
\* the personal number is None, and the 12-digit text when it is Some.
C5_OmitsAbsentPno ==
    \A c \in Calls :
        calls[c].op \in {"auth", "sign"} =>
            IF calls[c].req.personal_number.some
            THEN /\ Has(calls[c].body, "personalNumber")
                 /\ calls[c].body.personalNumber.t = "string"
                 /\ Canonical(calls[c].body.personalNumber.chars)
            ELSE ~Has(calls[c].body, "personalNumber")

\* a 2xx answer to collect whose body holds exactly the given keys, with
\* status "pending" and a hint code of the fixed set
PendingBody(c, keys) ==
    /\ DoneWithBody(c)
    /\ calls[c].op = "collect"
    /\ is_success(calls[c].resp.status)
    /\ calls[c].resp.body.json
    /\ DOMAIN calls[c].resp.body.obj = keys
    /\ calls[c].resp.body.obj.status = "pending"
    /\ calls[c].resp.body.obj.hintCode \in {HintCodeWire[v] : v \in DOMAIN HintCodeWire}

IsPendingResult(c) ==
    /\ calls[c].result.ok
    /\ calls[c].result.val.status = "Pending"
    /\ HintCodeWire[calls[c].result.val.hint_code] = calls[c].resp.body.obj.hintCode

\* C6 as claimed: a collect body of only status "pending" and a hintCode of
\* the fixed set decodes to Pending carrying that hint code.
C6_PendingNeedsHintOnly ==
    \A c \in Calls : PendingBody(c, {"status", "hintCode"}) => IsPendingResult(c)

\* C6 as the code has it: Pending needs orderRef too.  With status, a
\* hintCode of the fixed set and an orderRef that is a UUID the body decodes
\* to Pending carrying that hint code and order reference; with status and
\* hintCode alone it does not decode and the call fails.
C6_PendingNeedsOrderRef ==
    \A c \in Calls :
        /\ (/\ PendingBody(c, {"status", "hintCode", "orderRef"})
            /\ calls[c].resp.body.obj.orderRef \in Uuids)
              => /\ IsPendingResult(c)
                 /\ calls[c].result.val.order_ref = calls[c].resp.body.obj.orderRef
        /\ PendingBody(c, {"status", "hintCode"})
              => /\ ~calls[c].result.ok
                 /\ calls[c].result.kind = "ReqwestError"

\* collect answered 200 {"status":"pending","hintCode":"outstandingTransaction",
\* "orderRef":"o1"}
C6_Witness ==
    \E c \in Calls :
        /\ PendingBody(c, {"status", "hintCode", "orderRef"})
        /\ calls[c].resp.body.obj.hintCode = "outstandingTransaction"
        /\ calls[c].result.ok
        /\ calls[c].result.val.hint_code = "OutstandingTransaction"
        /\ calls[c].result.val.order_ref = "o1"

\* a 2xx answer whose body does not decode into the operation's type
UndecodableSuccess(c) ==
    /\ DoneWithBody(c)
    /\ is_success(calls[c].resp.status)
    /\ ~Json(ResponseType(calls[c].op), calls[c].resp.body).ok

\* a collect body whose status is none of pending, failed, complete
UnknownStatus(c) ==
    /\ DoneWithBody(c)
    /\ calls[c].op = "collect"
    /\ is_success(calls[c].resp.status)
    /\ calls[c].resp.body.json
    /\ Has(calls[c].resp.body.obj, "status")
    /\ calls[c].resp.body.obj.status \notin {"pending", "failed", "complete"}

\* C8 as claimed: a 2xx answer whose body does not decode gives an error
\* that is neither the transport failure kind nor the server error kind.
C8_DistinctKind ==
    \A c \in Calls :
        (UndecodableSuccess(c) \/ UnknownStatus(c)) =>
            /\ ~calls[c].result.ok
            /\ calls[c].result.kind \notin {"ReqwestError", "ClientError"}

\* C8 as the code has it: a 2xx answer whose body does not decode gives
\* Error::ReqwestError, the variant of transport failures, holding a decode
\* error; it is never Ok and never Error::ClientError.
C8_DecodeIsReqwestError ==
    \A c \in Calls :
        (UndecodableSuccess(c) \/ UnknownStatus(c)) =>
            /\ ~calls[c].result.ok
            /\ calls[c].result.kind = "ReqwestError"
            /\ calls[c].result.cause = "decode"

\* collect answered 200 with status "expired"
C8_Witness ==
    \E c \in Calls :
        /\ UnknownStatus(c)
        /\ UndecodableSuccess(c)
        /\ calls[c].result.kind = "ReqwestError"

\* a step of one call leaves every other call as it was
OneCallMoves ==
    \A c \in Calls :
        calls'[c] # calls[c] => \A d \in Calls \ {c} : calls'[d] = calls[d]

\* the result of a finished call is send applied to the response to its own
\* request, for which it sent exactly one request
OwnResponseOnly ==
    \A c \in Calls :
        Done(c) =>
            /\ calls[c].sent = 1
            /\ calls[c].result
                 = Outcome(calls[c].op, send(ResponseType(calls[c].op), calls[c].resp))

\* C9: with calls for different orders interleaved on one client, each
\* result is decided by the call's own request and the response to it; a
\* step of one call changes no other call and nothing of the client, and
\* every call sends a request of its own.
C9_Independent ==
    /\ []OwnResponseOnly
    /\ [][OneCallMoves /\ test' = test /\ root_ca' = root_ca]_vars

\* a collect on o1 and a cancel on o2, both finished, answered differently
C9_Witness ==
    \E c, d \in Calls :
        /\ c # d
        /\ Done(c) /\ calls[c].op = "collect" /\ calls[c].req.order_ref = "o1"
        /\ Done(d) /\ calls[d].op = "cancel" /\ calls[d].req.order_ref = "o2"
        /\ calls[c].result.ok
        /\ calls[c].result.val.status = "Pending"
        /\ calls[d].result.kind = "ClientError"

\* C10: a call sends at most one request: exactly one once it is under way,
\* also when it ends in a transport failure, a non-2xx status or a decode
\* failure.
C10_OneRequest ==
    \A c \in Calls :
        /\ calls[c].sent <= 1
        /\ calls[c].pc \in {"sent", "answered", "done"} => calls[c].sent = 1

\* a call answered non-2xx with a body that does not decode has ended in an
\* error, having sent one request
C10_Witness ==
    \E c \in Calls :
        /\ Done(c)
        /\ calls[c].sent = 1
        /\ calls[c].result.kind = "ReqwestError"
        /\ calls[c].result.cause = "decode"
        /\ ~is_success(calls[c].resp.status)

TestAddress == "https://appapi2.test.bankid.com/rp/v5.1/"
ProdAddress == "https://appapi2.bankid.com/rp/v5.1/"

\* every request built so far goes to the given base address, on its
\* operation's path
RequestsGoTo(address) ==
    \A c \in Calls :
        calls[c].pc # "idle" => calls[c].url = <<address, calls[c].op>>

\* the address and the trust root belong to the environment of the flag
EnvironmentPaired ==
    /\ test => (root_ca = "B64_ROOT_CA_TEST" /\ RequestsGoTo(TestAddress))
    /\ ~test => (root_ca = "B64_ROOT_CA_PROD" /\ RequestsGoTo(ProdAddress))

\* C11: the environment chosen at construction is fixed and applied to
\* every request: a client built for test sends every request to the test
\* address with the test trust root, one built for production to the
\* production address with the production trust root, and no operation
\* changes the flag or the trust root.
C11_EnvironmentFixed ==
    /\ []EnvironmentPaired
    /\ [][test' = test /\ root_ca' = root_ca]_vars

\* a production client has finished a collect sent to the production
\* address under the production trust root
C11_Witness ==
    \E c \in Calls :
        /\ ~test
        /\ root_ca = "B64_ROOT_CA_PROD"
        /\ Done(c)
        /\ calls[c].op = "collect"
        /\ calls[c].url = <<ProdAddress, "collect">>

====
